---------------------------- MODULE Spec2Model ----------------------------
(***************************************************************************)
(* Model of FinancialDataProcessor (src/financial_analyzer.py): the        *)
(* extraction of income-statement items from tagged facts, the derivation  *)
(* of missing items, the per-company statement, the merge of several       *)
(* companies' statements and the comparison report.                        *)
(*                                                                         *)
(* Text is modelled as sequences of one-character strings, so that         *)
(* substring tests, lower-casing and number parsing are computed.          *)
(* Row labels are Korean in the source; the model names them in English    *)
(* and keeps their code points in Label, which decides the sort order of   *)
(* the outer join and the regular-expression match of the report.          *)
(*                                                                         *)
(* Amounts are Python floats (IEEE-754 binary64).  A float x is the pair   *)
(* <<n, r>> with x = n/10 + r * 2^-60/10: n is the decimal value in        *)
(* tenths and r the (exact) rounding residue.  Round computes round-to-    *)
(* nearest-even on that representation, so x * 0.3 and x - y are the       *)
(* floats Python computes, not the real numbers.                           *)
(***************************************************************************)
EXTENDS Integers, Sequences, FiniteSets, TLC

VARIABLES
    pc,               \* position of the program
    soup,             \* the tags of the document being read: <<name, string>>
    pos,              \* number of tags _extract_financial_items has visited
    items,            \* _extract_financial_items: items
    seen,             \* _extract_financial_items: seen
    standard_item,    \* _extract_financial_items: standard_item of the last tag
    data,             \* _create_income_statement: data (updated in place)
    data0,            \* the item map as it was handed to _create_income_statement
    company_name,     \* _create_income_statement: company_name
    income_statement, \* the DataFrame load_file returns
    dataframes,       \* main: dataframes
    merged,           \* merge_company_data: its result (or the exception)
    report,           \* create_comparison_report: its result
    uploaded_files,   \* main: uploaded_files
    file_index,       \* main: number of files the loop of line 563 has taken
    errors            \* the messages given to st.error

vars == <<pc, soup, pos, items, seen, standard_item, data, data0,
          company_name, income_statement, dataframes, merged, report,
          uploaded_files, file_index, errors>>

None == "None"

(***************************************************************************)
(* Bounds of the model.                                                    *)
(***************************************************************************)
MaxTags == 2        \* tags per document in the extraction runs
MaxItems == 3       \* items per item map in the statement runs
MaxFiles == 2       \* statements per merge

(***************************************************************************)
(* Characters.                                                             *)
(***************************************************************************)
Digits == {"0", "1", "2", "3", "4", "5", "6", "7", "8", "9"}

DigitVal(c) ==
    CASE c = "0" -> 0 [] c = "1" -> 1 [] c = "2" -> 2 [] c = "3" -> 3
      [] c = "4" -> 4 [] c = "5" -> 5 [] c = "6" -> 6 [] c = "7" -> 7
      [] c = "8" -> 8 [] c = "9" -> 9

Upper == <<"A","B","C","D","E","F","G","H","I","J","K","L","M",
           "N","O","P","Q","R","S","T","U","V","W","X","Y","Z">>
LowerOf == <<"a","b","c","d","e","f","g","h","i","j","k","l","m",
             "n","o","p","q","r","s","t","u","v","w","x","y","z">>

\* str.lower() of one character
LowerChar(c) ==
    IF \E i \in 1..26 : Upper[i] = c
    THEN LowerOf[CHOOSE i \in 1..26 : Upper[i] = c]
    ELSE c

\* str.lower()
Lower(s) == [i \in 1..Len(s) |-> LowerChar(s[i])]

\* Python's  sub in s  for sequences
Contains(s, sub) ==
    \E i \in 0..(Len(s) - Len(sub)) :
        \A j \in 1..Len(sub) : s[i + j] = sub[j]

(***************************************************************************)
(* INCOME_STATEMENT_MAP, in the insertion order of the dict literal.       *)
(* Revenue = 매출액, COGS = 매출원가, GrossProfit = 매출총이익,            *)
(* SellingExpense = 판매비, AdminExpense = 관리비, SGA = 판관비,           *)
(* PersonnelExpense = 인건비, Depreciation = 감가상각비,                   *)
(* OperatingIncome = 영업이익, NonOperatingIncome = 영업외수익,            *)
(* NonOperatingExpense = 영업외비용, FinancialCost = 금융비용,             *)
(* InterestExpense = 이자비용, NetIncome = 당기순이익.                     *)
(***************************************************************************)
INCOME_STATEMENT_MAP ==
    << <<<<"s","a","l","e","s">>, "Revenue">>,
       <<<<"r","e","v","e","n","u","e">>, "Revenue">>,
       <<<<"c","o","s","t","o","f","g","o","o","d","s","s","o","l","d">>, "COGS">>,
       <<<<"c","o","g","s">>, "COGS">>,
       <<<<"c","o","s","t","o","f","r","e","v","e","n","u","e">>, "COGS">>,
       <<<<"o","p","e","r","a","t","i","n","g","e","x","p","e","n","s","e","s">>, "SGA">>,
       <<<<"s","e","l","l","i","n","g","e","x","p","e","n","s","e","s">>, "SellingExpense">>,
       <<<<"a","d","m","i","n","i","s","t","r","a","t","i","v","e","e","x","p","e","n","s","e","s">>, "AdminExpense">>,
       <<<<"e","m","p","l","o","y","e","e","b","e","n","e","f","i","t","s">>, "PersonnelExpense">>,
       <<<<"w","a","g","e","s">>, "PersonnelExpense">>,
       <<<<"d","e","p","r","e","c","i","a","t","i","o","n">>, "Depreciation">>,
       <<<<"g","r","o","s","s","p","r","o","f","i","t">>, "GrossProfit">>,
       <<<<"o","p","e","r","a","t","i","n","g","i","n","c","o","m","e">>, "OperatingIncome">>,
       <<<<"o","p","e","r","a","t","i","n","g","p","r","o","f","i","t">>, "OperatingIncome">>,
       <<<<"e","b","i","t">>, "OperatingIncome">>,
       <<<<"n","e","t","i","n","c","o","m","e">>, "NetIncome">>,
       <<<<"n","e","t","p","r","o","f","i","t">>, "NetIncome">>,
       <<<<"p","r","o","f","i","t","l","o","s","s">>, "NetIncome">>,
       <<<<"n","o","n","o","p","e","r","a","t","i","n","g","i","n","c","o","m","e">>, "NonOperatingIncome">>,
       <<<<"n","o","n","o","p","e","r","a","t","i","n","g","e","x","p","e","n","s","e">>, "NonOperatingExpense">>,
       <<<<"f","i","n","a","n","c","i","a","l","c","o","s","t","s">>, "FinancialCost">>,
       <<<<"i","n","t","e","r","e","s","t","e","x","p","e","n","s","e">>, "InterestExpense">> >>

NumKeys == Len(INCOME_STATEMENT_MAP)

\* The loop of lines 129-132 from entry i on: the first key contained in
\* tag_lower decides, and the loop breaks there.
RECURSIVE MapFrom(_, _)
MapFrom(tag_lower, i) ==
    IF i > NumKeys THEN None
    ELSE IF Contains(tag_lower, INCOME_STATEMENT_MAP[i][1])
         THEN INCOME_STATEMENT_MAP[i][2]
         ELSE MapFrom(tag_lower, i + 1)

\* The same loop without the break: the last key contained decides.
RECURSIVE MapFromNoBreak(_, _)
MapFromNoBreak(tag_lower, i) ==
    IF i > NumKeys THEN None
    ELSE LET rest == MapFromNoBreak(tag_lower, i + 1)
         IN  IF rest # None THEN rest
             ELSE IF Contains(tag_lower, INCOME_STATEMENT_MAP[i][1])
                  THEN INCOME_STATEMENT_MAP[i][2]
                  ELSE None

\* the mapping with the last matching key winning
StandardItemLastMatch(name) == MapFromNoBreak(Lower(name), 1)

\* Lines 126-132: tag.name -> standard_item
StandardItem(name) == MapFrom(Lower(name), 1)


(***************************************************************************)
(* Floats.  With D decimal units per 1 (D = 10 for amounts, kept in        *)
(* tenths; D = 100 for percentages, kept in hundredths), <<n, r>> is the   *)
(* number n/D + r * ULP60/D with ULP60 = 2^-60.  Every float the model     *)
(* computes has a residue r far below 2^31.                                *)
(***************************************************************************)
Zero == <<0, 0>>

\* the float of the integer k (exact), as an amount
FromInt(k) == <<10 * k, 0>>

Neg(a) == <<0 - a[1], 0 - a[2]>>

IsZero(a) == a[1] = 0 /\ a[2] = 0

\* a > 0
IsPos(a) == a[1] > 0 \/ (a[1] = 0 /\ a[2] > 0)

\* a < 0
IsNeg(a) == a[1] < 0 \/ (a[1] = 0 /\ a[2] < 0)

\* abs(a)
Abs(a) == IF IsNeg(a) THEN Neg(a) ELSE a

\* a > b
Gt(a, b) == a[1] > b[1] \/ (a[1] = b[1] /\ a[2] > b[2])

RECURSIVE Pow2(_)
Pow2(k) == IF k = 0 THEN 1 ELSE 2 * Pow2(k - 1)

\* 2^m mod D
RECURSIVE Pow2Mod(_, _)
Pow2Mod(m, D) == IF m = 0 THEN 1 ELSE (2 * Pow2Mod(m - 1, D)) % D

\* n/D + r * ULP60/D >= 2^e, for n > 0
GeqPow2(n, r, e, D) ==
    LET lhs == IF e >= 0 THEN n ELSE n * Pow2(0 - e)
        rhs == IF e >= 0 THEN D * Pow2(e) ELSE D
    IN  lhs > rhs \/ (lhs = rhs /\ r >= 0)

\* the binary exponent of a positive number: the largest e with 2^e <= x
RECURSIVE ExponentFrom(_, _, _, _)
ExponentFrom(n, r, e, D) ==
    IF GeqPow2(n, r, e + 1, D) THEN ExponentFrom(n, r, e + 1, D) ELSE e

Exponent(n, r, D) == ExponentFrom(n, r, -8, D)

\* Round a positive real to the nearest binary64 value, ties to even.  The
\* spacing of the floats in [2^e, 2^(e+1)) is 2^(e-52) = G * ULP60/D with
\* G = D * 2^(e+8); rho is the distance to the float below.
RoundPos(n, r, D) ==
    LET e == Exponent(n, r, D)
        j == e + 8
        G == D * Pow2(j)
        rho == (Pow2(j) * ((n * Pow2Mod(52 - e, D)) % D) + r) % G
        rho2 == (Pow2(j + 1) * ((n * Pow2Mod(51 - e, D)) % D) + r) % (2 * G)
        below == <<n, r - rho>>
        above == <<n, r - rho + G>>
    IN  IF 2 * rho < G THEN below
        ELSE IF 2 * rho > G THEN above
        ELSE IF rho2 = rho THEN below ELSE above

\* the float nearest to the real number a
RoundD(a, D) ==
    IF IsZero(a) THEN Zero
    ELSE IF IsNeg(a) THEN Neg(RoundPos(0 - a[1], 0 - a[2], D))
    ELSE RoundPos(a[1], a[2], D)

\* the float nearest to an amount
Round(a) == RoundD(a, 10)

\* the float a - b
Sub(a, b) == Round(<<a[1] - b[1], a[2] - b[2]>>)

\* the float a + b
Add(a, b) == Round(<<a[1] + b[1], a[2] + b[2]>>)

\* The float a * 0.3 for an integer-valued a.  The literal 0.3 is the float
\* 0.3 - 128 * ULP60, so the real product of k and it is 3k/10 - 128k * ULP60.
Mul03(a) == Round(<<3 * (a[1] \div 10), 0 - 128 * (a[1] \div 10)>>)

(***************************************************************************)
(* Lines 115-123: the number of a tag's string.                            *)
(***************************************************************************)
IsSpace(c) == c = " "

\* str.strip()
RECURSIVE Strip(_)
Strip(s) ==
    IF s = <<>> THEN s
    ELSE IF IsSpace(s[1]) THEN Strip(Tail(s))
    ELSE IF IsSpace(s[Len(s)]) THEN Strip(SubSeq(s, 1, Len(s) - 1))
    ELSE s

\* re.search(r'\d', value_str)
HasDigit(s) == \E i \in 1..Len(s) : s[i] \in Digits

IsNumChar(c) == c \in Digits \/ c = "." \/ c = "-"

\* re.sub(r'[^0-9.-]', '', value_str)
KeepNumChars(s) == SelectSeq(s, IsNumChar)

Count(s, c) == Cardinality({i \in 1..Len(s) : s[i] = c})

\* the part of a number text after its sign
Unsigned(t) == IF t # <<>> /\ t[1] = "-" THEN Tail(t) ELSE t

\* float(t) does not raise ValueError, for a text t of digits, '.' and '-':
\* an optional sign, then digits with at most one point among them
FloatAccepts(t) ==
    LET u == Unsigned(t)
    IN  /\ Count(u, "-") = 0
        /\ Count(u, ".") <= 1
        /\ HasDigit(u)

\* the value of a sequence of digits
RECURSIVE DigitsValue(_)
DigitsValue(ds) ==
    IF ds = <<>> THEN 0
    ELSE 10 * DigitsValue(SubSeq(ds, 1, Len(ds) - 1)) + DigitVal(ds[Len(ds)])

\* the tenths of an unsigned number text with at most one digit after the
\* point that is not 0
Tenths(u) ==
    LET p == IF Count(u, ".") = 0 THEN Len(u) + 1
             ELSE CHOOSE i \in 1..Len(u) : u[i] = "."
        whole == DigitsValue(SubSeq(u, 1, p - 1))
        frac == SubSeq(u, p + 1, Len(u))
    IN  10 * whole + (IF frac = <<>> THEN 0 ELSE DigitVal(frac[1]))

\* float(t), for a text float accepts
FloatOf(t) ==
    LET x == Round(<<Tenths(Unsigned(t)), 0>>)
    IN  IF t[1] = "-" THEN Neg(x) ELSE x

\* tag.string of a tag that has no single string
NoString == <<None>>

\* the result of an iteration that reaches a continue before line 126
Skip == <<>>

\* Lines 112-123 for one tag string: the parsed value, or None when the
\* tag is skipped (no string, no digit, or float() raises): Skip
ParseValue(string) ==
    IF string = NoString \/ string = <<>> THEN Skip
    ELSE LET value_str == Strip(string)
         IN  IF ~HasDigit(value_str) THEN Skip
             ELSE IF ~FloatAccepts(KeepNumChars(value_str)) THEN Skip
             ELSE FloatOf(KeepNumChars(value_str))


(***************************************************************************)
(* Dicts.                                                                  *)
(***************************************************************************)
EmptyDict == [k \in {} |-> Zero]

\* d[k] = v
Put(d, k, v) == [x \in DOMAIN d \cup {k} |-> IF x = k THEN v ELSE d[x]]

\* d.update(e)
Update(d, e) == [x \in DOMAIN d \cup DOMAIN e |-> IF x \in DOMAIN e THEN e[x] ELSE d[x]]

\* d.get(k, 0)
Get0(d, k) == IF k \in DOMAIN d THEN d[k] ELSE Zero

(***************************************************************************)
(* The documents of the extraction runs.  A tag is <<name, string>>.       *)
(***************************************************************************)
UpperChar(c) ==
    IF \E i \in 1..26 : LowerOf[i] = c
    THEN Upper[CHOOSE i \in 1..26 : LowerOf[i] = c]
    ELSE c

Key(i) == INCOME_STATEMENT_MAP[i][1]

\* names made of one or two keys of the table, in both letter cases
KeyNames ==
    {Key(i) : i \in 1..NumKeys}
      \cup {<<"x", ":">> \o [k \in 1..Len(Key(i)) |-> UpperChar(Key(i)[k])] : i \in 1..NumKeys}
      \cup {Key(i) \o Key(j) : i, j \in 1..NumKeys}

OtherNames ==
    { <<"E","n","t","i","t","y","N","a","m","e">>,
      <<"D","e","b","i","t">>,
      <<"C","o","s","t">> }

ShortNames ==
    { <<"R","e","v","e","n","u","e">>,
      <<"N","e","t","I","n","c","o","m","e","F","r","o","m","S","a","l","e","s">>,
      <<"C","O","G","S">>,
      <<"E","n","t","i","t","y","N","a","m","e">> }

ShortStrings ==
    { <<"7","0","0">>,
      <<"(","7","0","0",")">>,
      <<"-","7","0","0">>,
      <<"-","1",",","2","0","0">>,
      <<"n","/","a">> }

Strings ==
    ShortStrings \cup
    { <<" ","1","2","0","0",".","0"," ">>,
      <<"0">>,
      <<"1">>,
      <<"1","-","2">>,
      <<"-">>,
      <<>>,
      NoString }

\* documents of one tag: every name with one string, some names with every string
OneTagDocuments ==
    {<< <<name, <<"1">>>> >> : name \in KeyNames \cup OtherNames}
      \cup {<< <<name, string>> >> : name \in ShortNames, string \in Strings}

RECURSIVE DocumentsOfLen(_)
DocumentsOfLen(k) ==
    IF k = 0 THEN {<<>>}
    ELSE {Append(d, <<name, string>>) :
            d \in DocumentsOfLen(k - 1), name \in ShortNames, string \in ShortStrings}

Documents == OneTagDocuments \cup UNION {DocumentsOfLen(k) : k \in 0..MaxTags}

(***************************************************************************)
(* _extract_financial_items (lines 106-150), one tag per step.             *)
(***************************************************************************)
InitExtract ==
    /\ pc = "extract"
    /\ soup \in Documents
    /\ pos = 0
    /\ items = EmptyDict
    /\ seen = {}
    /\ standard_item = None
    /\ data = EmptyDict
    /\ data0 = EmptyDict
    /\ company_name = None
    /\ income_statement = <<>>
    /\ dataframes = <<>>
    /\ merged = <<>>
    /\ report = <<>>
    /\ uploaded_files = <<>>
    /\ file_index = 0
    /\ errors = <<>>

\* the tag the loop of line 111 visits next
Tag == soup[pos + 1]
TagName == Tag[1]
TagString == Tag[2]
TagValue == ParseValue(TagString)
TagItem == StandardItem(TagName)

InLoop == pc = "extract" /\ pos < Len(soup)

LaterUnchanged ==
    UNCHANGED <<soup, data, data0, company_name, income_statement,
                dataframes, merged, report, uploaded_files, file_index, errors>>

\* line 112: continue
SkipNoString ==
    /\ InLoop
    /\ (TagString = NoString \/ TagString = <<>> \/ TagName = <<>>)
    /\ pos' = pos + 1
    /\ UNCHANGED <<pc, items, seen, standard_item>>
    /\ LaterUnchanged

\* line 116: continue
SkipNoDigit ==
    /\ InLoop
    /\ ~(TagString = NoString \/ TagString = <<>> \/ TagName = <<>>)
    /\ ~HasDigit(Strip(TagString))
    /\ pos' = pos + 1
    /\ UNCHANGED <<pc, items, seen, standard_item>>
    /\ LaterUnchanged

\* lines 120-123: float() raises, continue
SkipBadNumber ==
    /\ InLoop
    /\ ~(TagString = NoString \/ TagString = <<>> \/ TagName = <<>>)
    /\ HasDigit(Strip(TagString))
    /\ TagValue = Skip
    /\ pos' = pos + 1
    /\ UNCHANGED <<pc, items, seen, standard_item>>
    /\ LaterUnchanged

\* lines 126-135: no key of the table is in the tag name, continue
SkipUnmapped ==
    /\ InLoop
    /\ TagName # <<>>
    /\ TagValue # Skip
    /\ TagItem = None
    /\ standard_item' = None
    /\ pos' = pos + 1
    /\ UNCHANGED <<pc, items, seen>>
    /\ LaterUnchanged

\* lines 138-140: the pair (standard_item, value) was seen, continue
SkipSeen ==
    /\ InLoop
    /\ TagName # <<>>
    /\ TagValue # Skip
    /\ TagItem # None
    /\ <<TagItem, TagValue>> \in seen
    /\ standard_item' = TagItem
    /\ pos' = pos + 1
    /\ UNCHANGED <<pc, items, seen>>
    /\ LaterUnchanged

\* the comparison of line 145 on the signed values
LargerSigned(value, old) == Gt(value, old)

\* line 145: abs(value) > abs(items[standard_item])
Larger(value, old) == Gt(Abs(value), Abs(old))

\* lines 141-148
StoreItem ==
    /\ InLoop
    /\ TagName # <<>>
    /\ TagValue # Skip
    /\ TagItem # None
    /\ <<TagItem, TagValue>> \notin seen
    /\ seen' = seen \cup {<<TagItem, TagValue>>}
    /\ items' = IF TagItem \in DOMAIN items
                THEN IF Larger(TagValue, items[TagItem])
                     THEN Put(items, TagItem, TagValue)
                     ELSE items
                ELSE Put(items, TagItem, TagValue)
    /\ standard_item' = TagItem
    /\ pos' = pos + 1
    /\ UNCHANGED pc
    /\ LaterUnchanged

\* line 150
ReturnItems ==
    /\ pc = "extract"
    /\ pos = Len(soup)
    /\ pc' = "extracted"
    /\ UNCHANGED <<pos, items, seen, standard_item>>
    /\ LaterUnchanged

NextExtract ==
    \/ SkipNoString
    \/ SkipNoDigit
    \/ SkipBadNumber
    \/ SkipUnmapped
    \/ SkipSeen
    \/ StoreItem
    \/ ReturnItems

SpecExtract == InitExtract /\ [][NextExtract]_vars


(***************************************************************************)
(* _calculate_derived_items (lines 200-216).                               *)
(***************************************************************************)
\* lines 205-210 with the estimate of line 207 made whenever Revenue is
\* there without COGS
GrossProfitPartNoGuard(d) ==
    IF "Revenue" \in DOMAIN d /\ "COGS" \in DOMAIN d
    THEN "GrossProfit" :> Sub(d["Revenue"], d["COGS"])
    ELSE IF "Revenue" \in DOMAIN d
         THEN ("GrossProfit" :> Mul03(d["Revenue"]))
                @@ ("COGS" :> Sub(d["Revenue"], Mul03(d["Revenue"])))
         ELSE EmptyDict

\* lines 205-210
GrossProfitPart(d) ==
    IF "Revenue" \in DOMAIN d /\ "COGS" \in DOMAIN d
    THEN "GrossProfit" :> Sub(d["Revenue"], d["COGS"])
    ELSE IF "Revenue" \in DOMAIN d /\ "GrossProfit" \notin DOMAIN d
         THEN ("GrossProfit" :> Mul03(d["Revenue"]))
                @@ ("COGS" :> Sub(d["Revenue"], Mul03(d["Revenue"])))
         ELSE EmptyDict

\* lines 213-214
SGAPart(d) ==
    IF "SellingExpense" \in DOMAIN d /\ "AdminExpense" \in DOMAIN d
    THEN "SGA" :> Add(d["SellingExpense"], d["AdminExpense"])
    ELSE EmptyDict

\* _calculate_derived_items(data): the dict calculated
CalculateDerivedItems(d) == Update(GrossProfitPart(d), SGAPart(d))

\* lines 174-175: data after data.update(calculated_items)
WithDerived(d) == Update(d, CalculateDerivedItems(d))

(***************************************************************************)
(* _calculate_ratios (lines 218-240).  A ratio is kept as the pair         *)
(* <<numerator, revenue>> of the floats whose quotient, times 100, it is.  *)
(***************************************************************************)
RatioSources ==
    << <<"OperatingMargin", "OperatingIncome">>,
       <<"NetMargin", "NetIncome">>,
       <<"COGSRatio", "COGS">>,
       <<"SGARatio", "SGA">> >>

\* lines 222-238 with a ratio made only for a numerator that is not 0
CalculateRatiosNonZero(d) ==
    IF IsPos(Get0(d, "Revenue"))
    THEN LET Present(p) == ~IsZero(Get0(d, p[2]))
             src == SelectSeq(RatioSources, Present)
         IN  [i \in 1..Len(src) |-> <<src[i][1], <<d[src[i][2]], d["Revenue"]>>>>]
    ELSE <<>>

\* the ratios dict, as the sequence of its (name, value) pairs
CalculateRatios(d) ==
    IF IsPos(Get0(d, "Revenue"))
    THEN LET Present(p) == p[2] \in DOMAIN d
             src == SelectSeq(RatioSources, Present)
         IN  [i \in 1..Len(src) |-> <<src[i][1], <<d[src[i][2]], d["Revenue"]>>>>]
    ELSE <<>>

(***************************************************************************)
(* Number formatting.                                                      *)
(***************************************************************************)
\* The integer nearest to (n + eps)/(q1 * q2), ties to even, for n >= 0 and
\* an even q2; eps is a positive, zero or negative residue (sign = 1, 0, -1).
RoundDiv(n, sign, q1, q2) ==
    LET f1 == n \div q1
        m1 == n % q1
        f == f1 \div q2
        m2 == f1 % q2
        half == q2 \div 2
        up == \/ m2 > half
              \/ m2 = half /\ (m1 > 0 \/ sign > 0 \/ (m1 = 0 /\ sign = 0 /\ f % 2 = 1))
    IN  IF up THEN f + 1 ELSE f

\* a >= t/10
GeqTenths(a, t) == a[1] > t \/ (a[1] = t /\ a[2] >= 0)

Sign(r) == IF r > 0 THEN 1 ELSE IF r < 0 THEN -1 ELSE 0

MinusIfNeg(a) == IF IsNeg(a) THEN "-" ELSE ""

\* _format_amount (lines 242-251): <<sign, digits, unit>>.  The units are
\* jo = 조원 (10^12), eok = 억원 (10^8), man = 만원 (10^4), won = 원; the jo
\* figure is in tenths (one decimal), the others are whole numbers.
FormatAmount(amount) ==
    LET n == Abs(amount)[1]
        sg == Sign(Abs(amount)[2])
    IN  IF n \div 100000 >= 100000000
        THEN <<MinusIfNeg(amount), RoundDiv(n, sg, 1000000, 1000000), "jo">>
        ELSE IF GeqTenths(Abs(amount), 1000000000)
        THEN <<MinusIfNeg(amount), RoundDiv(n, sg, 100000000, 10), "eok">>
        ELSE IF GeqTenths(Abs(amount), 100000)
        THEN <<MinusIfNeg(amount), RoundDiv(n, sg, 10000, 10), "man">>
        ELSE <<MinusIfNeg(amount), RoundDiv(n, sg, 1, 10), "won">>

\* f"{ratio_value:.2f}%" of the ratio (num / den) * 100, den > 0:
\* <<sign, hundredths of a percent, "%">>.  The quotient is rounded to the
\* nearest hundredth; it lies exactly between two hundredths only for a
\* revenue that is a multiple of 32, which the amounts of the model are not.
FormatRatio(ratio) ==
    LET num == ratio[1]
        den == ratio[2][1]
        A == Abs(num)[1] * 100
        f == A \div den
        B == (A % den) * 100
        g == B \div den
        rest == B % den
        total == f * 100 + g
        up == \/ 2 * rest > den
              \/ 2 * rest = den /\ total % 2 = 1
    IN  <<MinusIfNeg(num), IF up THEN total + 1 ELSE total, "%">>

(***************************************************************************)
(* DataFrames: [columns |-> sequence of column names, rows |-> sequence of *)
(* rows], a row being a function from the column names to cells.  Column   *)
(* names are sequences of pieces of text: KeyCol is 구분, <<name>> the     *)
(* company's display column, <<name, RawSuffix>> its 원시값 column.        *)
(***************************************************************************)
KeyCol == << <<"label">> >>
RawSuffix == <<"_raw">>
DisplayCol(name) == <<name>>
RawCol(name) == <<name, RawSuffix>>

\* col.endswith('_원시값')
EndsWithRaw(col) == col[Len(col)] = RawSuffix

\* pd.DataFrame(records) for records with the same keys
DataFrame(records, cols) ==
    IF records = <<>> THEN [columns |-> <<>>, rows |-> <<>>]
    ELSE [columns |-> cols, rows |-> records]

EmptyFrame == [columns |-> <<>>, rows |-> <<>>]

(***************************************************************************)
(* _create_income_statement (lines 152-198).                               *)
(***************************************************************************)
standard_items ==
    <<"Revenue", "COGS", "GrossProfit", "SellingExpense", "AdminExpense",
      "SGA", "PersonnelExpense", "Depreciation", "OperatingIncome",
      "NonOperatingIncome", "NonOperatingExpense", "FinancialCost",
      "InterestExpense", "NetIncome">>

Record(name, label, display, raw) ==
    (KeyCol :> label) @@ (DisplayCol(name) :> display) @@ (RawCol(name) :> raw)

\* lines 180-187 with every item of data included
ItemRowsAll(d, name) ==
    LET Included(item) == item \in DOMAIN d
        kept == SelectSeq(standard_items, Included)
    IN  [i \in 1..Len(kept) |->
            Record(name, kept[i], FormatAmount(d[kept[i]]), d[kept[i]])]

\* lines 180-187: the rows of the items whose value is not 0
ItemRows(d, name) ==
    LET Included(item) == ~IsZero(Get0(d, item))
        kept == SelectSeq(standard_items, Included)
    IN  [i \in 1..Len(kept) |->
            Record(name, kept[i], FormatAmount(d[kept[i]]), d[kept[i]])]

\* lines 190-196: the rows of the ratios
RatioRows(d, name) ==
    LET ratios == CalculateRatios(d)
    IN  [i \in 1..Len(ratios) |->
            Record(name, ratios[i][1], FormatRatio(ratios[i][2]), ratios[i][2])]

\* the DataFrame of line 198, for the data of line 175
StatementOf(d, name) ==
    DataFrame(ItemRows(d, name) \o RatioRows(d, name),
              <<KeyCol, DisplayCol(name), RawCol(name)>>)

\* _create_income_statement(data, company_name)
CreateIncomeStatement(d, name) == StatementOf(WithDerived(d), name)

(***************************************************************************)
(* The statement runs: load_file from line 79 on, for the item maps that   *)
(* _extract_financial_items can return.                                    *)
(***************************************************************************)
Names == {<<"A">>, <<"B">>, <<"C">>}

Amounts == {FromInt(0), FromInt(1), FromInt(700), FromInt(1000), FromInt(0 - 1200)}

\* the items that the derivation or the ratios read or write, and one that
\* they do not; every one of them is the item of some key of the table
StatementItems ==
    {"Revenue", "COGS", "GrossProfit", "SellingExpense", "AdminExpense", "SGA",
     "OperatingIncome", "NetIncome", "PersonnelExpense"}

\* the dicts with the given keys and values, of at most k items
DictsUpTo(keys, values, k) ==
    UNION {[dom -> values] : dom \in {S \in SUBSET keys : Cardinality(S) <= k}}

\* load_file returns at line 76 when the item map is empty
ItemMaps == DictsUpTo(StatementItems, Amounts, MaxItems) \ {EmptyDict}

InitStatement ==
    /\ pc = "loaded"
    /\ data \in ItemMaps
    /\ data0 = data
    /\ company_name = <<"A">>
    /\ income_statement = <<>>
    /\ soup = <<>>
    /\ pos = 0
    /\ items = EmptyDict
    /\ seen = {}
    /\ standard_item = None
    /\ dataframes = <<>>
    /\ merged = <<>>
    /\ report = <<>>
    /\ uploaded_files = <<>>
    /\ file_index = 0
    /\ errors = <<>>

\* line 79: income_statement = self._create_income_statement(financial_data, company_name)
BuildStatement ==
    /\ pc = "loaded"
    /\ data' = WithDerived(data)
    /\ income_statement' = CreateIncomeStatement(data, company_name)
    /\ pc' = "built"
    /\ UNCHANGED <<soup, pos, items, seen, standard_item, data0, company_name,
                   dataframes, merged, report, uploaded_files, file_index, errors>>

NextStatement == BuildStatement

SpecStatement == InitStatement /\ [][NextStatement]_vars

(***************************************************************************)
(* Row labels: the code points of the Korean labels of the source.         *)
(***************************************************************************)
Label ==
    ("Revenue" :> <<47588, 52636, 50529>>) @@                               \* 매출액
    ("COGS" :> <<47588, 52636, 50896, 44032>>) @@                           \* 매출원가
    ("GrossProfit" :> <<47588, 52636, 52509, 51060, 51061>>) @@             \* 매출총이익
    ("SellingExpense" :> <<54032, 47588, 48708>>) @@                        \* 판매비
    ("AdminExpense" :> <<44288, 47532, 48708>>) @@                          \* 관리비
    ("SGA" :> <<54032, 44288, 48708>>) @@                                   \* 판관비
    ("PersonnelExpense" :> <<51064, 44148, 48708>>) @@                      \* 인건비
    ("Depreciation" :> <<44048, 44032, 49345, 44033, 48708>>) @@            \* 감가상각비
    ("OperatingIncome" :> <<50689, 50629, 51060, 51061>>) @@                \* 영업이익
    ("NonOperatingIncome" :> <<50689, 50629, 50808, 49688, 51061>>) @@      \* 영업외수익
    ("NonOperatingExpense" :> <<50689, 50629, 50808, 48708, 50857>>) @@     \* 영업외비용
    ("FinancialCost" :> <<44552, 50997, 48708, 50857>>) @@                  \* 금융비용
    ("InterestExpense" :> <<51060, 51088, 48708, 50857>>) @@                \* 이자비용
    ("NetIncome" :> <<45817, 44592, 49692, 51060, 51061>>) @@               \* 당기순이익
    ("OperatingMargin" :> <<50689, 50629, 51060, 51061, 47456, 40, 37, 41>>) @@  \* 영업이익률(%)
    ("NetMargin" :> <<49692, 51060, 51061, 47456, 40, 37, 41>>) @@          \* 순이익률(%)
    ("COGSRatio" :> <<47588, 52636, 50896, 44032, 50984, 40, 37, 41>>) @@   \* 매출원가율(%)
    ("SGARatio" :> <<54032, 44288, 48708, 50984, 40, 37, 41>>)              \* 판관비율(%)

\* Python's  a < b  for strings, on their code points
RECURSIVE CodePointsLess(_, _)
CodePointsLess(a, b) ==
    IF a = <<>> THEN b # <<>>
    ELSE IF b = <<>> THEN FALSE
    ELSE IF a[1] # b[1] THEN a[1] < b[1]
    ELSE CodePointsLess(Tail(a), Tail(b))

LabelLess(x, y) == CodePointsLess(Label[x], Label[y])

\* the labels of a set, sorted
RECURSIVE SortedLabels(_)
SortedLabels(S) ==
    IF S = {} THEN <<>>
    ELSE LET first == CHOOSE x \in S : \A y \in S \ {x} : LabelLess(x, y)
         IN  <<first>> \o SortedLabels(S \ {first})

Range(f) == {f[i] : i \in DOMAIN f}

(***************************************************************************)
(* merge_company_data (lines 253-273).  A result is a DataFrame with the   *)
(* field raised, which names the exception when the call raises one.       *)
(***************************************************************************)
NaN == <<"NaN">>
Missing == <<"-">>

Returned(df) == [raised |-> None, columns |-> df.columns, rows |-> df.rows]
Raised(exception) == [raised |-> exception, columns |-> <<>>, rows |-> <<>>]

\* the labels of the rows of a DataFrame
Labels(df) == [i \in 1..Len(df.rows) |-> df.rows[i][KeyCol]]

\* the row of the label
RowOf(df, label) == df.rows[CHOOSE i \in 1..Len(df.rows) : df.rows[i][KeyCol] = label]

\* the index of an outer join that keeps the order of the left index and
\* appends the labels only the right index has
AppendedIndex(left, right) ==
    LET New(x) == x \notin Range(left)
    IN  left \o SelectSeq(right, New)

\* the index of  left.join(right, how='outer'): the left index when the two
\* are equal, their union sorted otherwise
OuterIndex(left, right) ==
    IF left = right THEN left ELSE SortedLabels(Range(left) \cup Range(right))

\* line 268 for a frame that has the column 구분 and not the column col
JoinOuter(m, df, col) ==
    LET index == OuterIndex(Labels(m), Labels(df))
        Cell(label, c) ==
            IF c = KeyCol THEN label
            ELSE IF c = col
                 THEN IF label \in Range(Labels(df)) THEN RowOf(df, label)[col] ELSE NaN
                 ELSE IF label \in Range(Labels(m)) THEN RowOf(m, label)[c] ELSE NaN
        cols == Append(m.columns, col)
    IN  [columns |-> cols,
         rows |-> [i \in 1..Len(index) |-> [c \in Range(cols) |-> Cell(index[i], c)]]]

\* line 263
CompanyCols(df) ==
    LET IsCompany(col) == col # KeyCol /\ ~EndsWithRaw(col)
    IN  SelectSeq(df.columns, IsCompany)

\* lines 265-268 for the columns company_cols[k..] of df
RECURSIVE JoinCols(_, _, _, _)
JoinCols(m, df, company_cols, k) ==
    IF m.raised # None \/ k > Len(company_cols) THEN m
    ELSE IF KeyCol \notin Range(m.columns) THEN Raised("KeyError")
    ELSE IF company_cols[k] \in Range(m.columns) THEN Raised("ValueError")
    ELSE JoinCols(Returned(JoinOuter(m, df, company_cols[k])), df, company_cols, k + 1)

\* lines 262-268 for the frames dfs[i..]
RECURSIVE JoinFrames(_, _, _)
JoinFrames(m, dfs, i) ==
    IF m.raised # None \/ i > Len(dfs) THEN m
    ELSE JoinFrames(JoinCols(m, dfs[i], CompanyCols(dfs[i]), 1), dfs, i + 1)

\* line 271
FillNa(m) ==
    IF m.raised # None THEN m
    ELSE [m EXCEPT !.rows = [i \in 1..Len(m.rows) |->
             [c \in DOMAIN m.rows[i] |->
                 IF c # KeyCol /\ m.rows[i][c] = NaN THEN Missing ELSE m.rows[i][c]]]]

\* merge_company_data(dataframes)
MergeCompanyData(dfs) ==
    IF dfs = <<>> THEN Returned(EmptyFrame)
    ELSE FillNa(JoinFrames(Returned(dfs[1]), dfs, 2))

(***************************************************************************)
(* create_comparison_report (lines 275-331).  The report is the sequence   *)
(* of its lines; a line is a tuple that starts with the kind of the line.  *)
(***************************************************************************)
\* re.search('이익률|비율', label), with every ratio label matching
MatchesAnyRatio(label) == label \in {RatioSources[i][1] : i \in 1..Len(RatioSources)}

\* line 286: re.search('이익률|비율', label)
MatchesRatioPattern(label) ==
    \/ Contains(Label[label], <<51060, 51061, 47456>>)     \* 이익률
    \/ Contains(Label[label], <<48708, 50984>>)            \* 비율

\* lines 292-296: the bullet of one row; row[1:] is every column but the first
Bullet(m, row) ==
    LET rest == SubSeq(m.columns, 2, Len(m.columns))
        NotMissing(col) == row[col] # Missing
        shown == SelectSeq(rest, NotMissing)
    IN  IF shown = <<>> THEN <<>>
        ELSE << <<"bullet", row[KeyCol], [i \in 1..Len(shown) |-> row[shown[i]]]>> >>

RECURSIVE Bullets(_, _, _)
Bullets(m, rows, i) ==
    IF i > Len(rows) THEN <<>>
    ELSE Bullet(m, rows[i]) \o Bullets(m, rows, i + 1)

\* lines 285-296
HighlightLines(m) ==
    LET IsProfitRow(row) == MatchesRatioPattern(row[KeyCol])
        profit_rows == SelectSeq(m.rows, IsProfitRow)
    IN  IF profit_rows = <<>> THEN <<>>
        ELSE << <<"highlights">>, <<"rule50">> >> \o Bullets(m, profit_rows, 1)

\* line 311: float(str(val).replace('%', '')) of a cell "N.NN%", in hundredths
RateOf(cell) ==
    LET x == RoundD(<<cell[2], 0>>, 100)
    IN  IF cell[1] = "-" THEN Neg(x) ELSE x

\* max(rates) and min(rates)
MaxOf(rates) == CHOOSE x \in Range(rates) : \A y \in Range(rates) : ~Gt(y, x)
MinOf(rates) == CHOOSE x \in Range(rates) : \A y \in Range(rates) : ~Gt(x, y)

\* line 320: gap > 2
GapIsLarge(gap) == Gt(gap, <<200, 0>>)

\* lines 303-322
GapLines(m) ==
    IF "OperatingMargin" \notin Range(Labels(m)) THEN <<>>
    ELSE LET row == RowOf(m, "OperatingMargin")
             HasRate(col) == ~EndsWithRaw(col) /\ row[col] # Missing
             cols == SelectSeq(SubSeq(m.columns, 2, Len(m.columns)), HasRate)
             rates == [i \in 1..Len(cols) |-> RateOf(row[cols[i]])]
             gap == RoundD(<<MaxOf(rates)[1] - MinOf(rates)[1],
                             MaxOf(rates)[2] - MinOf(rates)[2]>>, 100)
         IN  IF Len(rates) >= 2 /\ GapIsLarge(gap)
             THEN << <<"gap", RoundDiv(gap[1], Sign(gap[2]), 1, 10)>>,
                     <<"achievable", RoundDiv(gap[1], Sign(gap[2]), 2, 10)>> >>
             ELSE <<>>

\* lines 325-329
CostLines(m) ==
    LET cost_items == <<"COGSRatio", "SGARatio">>
        Present(cost_item) == cost_item \in Range(Labels(m))
        present == SelectSeq(cost_items, Present)
    IN  [i \in 1..Len(present) |-> <<"optimize", present[i]>>]

\* create_comparison_report(merged_df)
CreateComparisonReport(m) ==
    IF m.rows = <<>> THEN << <<"nodata">> >>
    ELSE << <<"rule80">>, <<"title">>, <<"rule80">> >>
           \o HighlightLines(m)
           \o << <<"ideas">>, <<"rule50">> >>
           \o GapLines(m)
           \o CostLines(m)

(***************************************************************************)
(* The merge runs: main from line 584 on, for the statements load_file     *)
(* can have returned.                                                      *)
(***************************************************************************)
Revenue1000 == "Revenue" :> FromInt(1000)

MergeMaps ==
    { Revenue1000 @@ ("COGS" :> FromInt(700)),
      Revenue1000 @@ ("NetIncome" :> FromInt(70)),
      Revenue1000 @@ ("OperatingIncome" :> FromInt(52)),
      Revenue1000 @@ ("OperatingIncome" :> FromInt(83)),
      Revenue1000 @@ ("OperatingIncome" :> FromInt(73)),
      Revenue1000 @@ ("OperatingIncome" :> FromInt(93)),
      Revenue1000 @@ ("OperatingIncome" :> FromInt(72)),
      Revenue1000 @@ ("SGA" :> FromInt(700)),
      "OperatingIncome" :> FromInt(52),
      "PersonnelExpense" :> FromInt(700),
      "PersonnelExpense" :> FromInt(0) }

\* the DataFrames load_file returns for these maps
Statements == {CreateIncomeStatement(d, name) : d \in MergeMaps, name \in Names}

InitMerge ==
    /\ pc = "merge"
    /\ dataframes \in UNION {[1..k -> Statements] : k \in 2..MaxFiles}
    /\ merged = <<>>
    /\ report = <<>>
    /\ soup = <<>>
    /\ pos = 0
    /\ items = EmptyDict
    /\ seen = {}
    /\ standard_item = None
    /\ data = EmptyDict
    /\ data0 = EmptyDict
    /\ company_name = None
    /\ income_statement = <<>>
    /\ uploaded_files = <<>>
    /\ file_index = 0
    /\ errors = <<>>

EarlierUnchanged ==
    UNCHANGED <<soup, pos, items, seen, standard_item, data, data0,
                company_name, income_statement, dataframes,
                uploaded_files, file_index, errors>>

\* line 589: merged_df = processor.merge_company_data(dataframes)
MergeData ==
    /\ pc = "merge"
    /\ merged' = MergeCompanyData(dataframes)
    /\ pc' = IF merged'.raised = None THEN "merged" ELSE "raised"
    /\ UNCHANGED report
    /\ EarlierUnchanged

\* line 682: report = processor.create_comparison_report(merged_df)
Report ==
    /\ pc = "merged"
    /\ report' = CreateComparisonReport(merged)
    /\ pc' = "reported"
    /\ UNCHANGED merged
    /\ EarlierUnchanged

NextMerge == MergeData \/ Report

SpecMerge == InitMerge /\ [][NextMerge]_vars

(***************************************************************************)
(* _extract_company_name (lines 87-104).  A name is text, like the name of *)
(* a tag.                                                                  *)
(***************************************************************************)
company_tags ==
    << <<"E","n","t","i","t","y","R","e","g","i","s","t","r","a","n","t","N","a","m","e">>,
       <<"e","n","t","i","t","y">>,
       <<"C","o","m","p","a","n","y","N","a","m","e">>,
       <<"r","e","g","i","s","t","r","a","n","t">> >>

\* line 91: soup.find(...), the position of the first tag whose name holds
\* tag_name (0 when there is none)
FindTag(tags, tag_name) ==
    LET Found(i) == tags[i][1] # <<>> /\ Contains(Lower(tags[i][1]), Lower(tag_name))
    IN  IF \E i \in 1..Len(tags) : Found(i)
        THEN CHOOSE i \in 1..Len(tags) : Found(i) /\ \A j \in 1..(i - 1) : ~Found(j)
        ELSE 0

\* line 96: filename.split('.')[0]
RECURSIVE BeforeDot(_)
BeforeDot(filename) ==
    IF filename = <<>> \/ filename[1] = "." THEN <<>>
    ELSE <<filename[1]>> \o BeforeDot(Tail(filename))

\* line 104: re.sub(r'[^A-Za-z가-힣0-9]', '', name)
AlphaNumeric(name) ==
    LET Kept(c) == c \in Digits \/ c \in Range(Upper) \/ c \in Range(LowerOf)
    IN  SelectSeq(name, Kept)

SKInnovation == <<"S","K","i","n","n","o","v","a","t","i","o","n">>   \* SK이노베이션
SOil == <<"S","-","O","i","l">>                                       \* S-Oil
GSCaltex == <<"G","S","c","a","l","t","e","x">>                       \* GS칼텍스

\* lines 96-104
NameFromFilename(filename) ==
    LET name == BeforeDot(filename)
        low == Lower(name)
    IN  IF Contains(low, <<"s","k">>) THEN SKInnovation
        ELSE IF Contains(low, <<"s","-","o","i","l">>) \/ Contains(low, <<"s","o","i","l">>)
        THEN SOil
        ELSE IF Contains(low, <<"g","s">>) THEN GSCaltex
        ELSE AlphaNumeric(name)

\* lines 90-93 for the names company_tags[k..], then the file name
RECURSIVE NameFromTags(_, _, _)
NameFromTags(tags, filename, k) ==
    IF k > Len(company_tags) THEN NameFromFilename(filename)
    ELSE LET node == FindTag(tags, company_tags[k])
         IN  IF node # 0 /\ tags[node][2] # NoString /\ tags[node][2] # <<>>
             THEN Strip(tags[node][2])
             ELSE NameFromTags(tags, filename, k + 1)

\* _extract_company_name(soup, filename)
ExtractCompanyName(tags, filename) == NameFromTags(tags, filename, 1)

(***************************************************************************)
(* The batch runs: main, lines 561-589, with load_file (lines 62-85) for   *)
(* each uploaded file.  A file is its name, whether reading and parsing it *)
(* succeeds, and the tags soup.find_all() yields.                          *)
(***************************************************************************)
File(name, tags) == [name |-> name, readable |-> TRUE, tags |-> tags]
Unreadable(name) == [name |-> name, readable |-> FALSE, tags |-> <<>>]

RevenueTag == <<"R","e","v","e","n","u","e">>

DocRevenueCogs ==
    << <<RevenueTag, <<"1","0","0","0">>>>, <<<<"C","O","G","S">>, <<"7","0","0">>>> >>

DocNamed ==
    << <<<<"E","n","t","i","t","y","N","a","m","e">>, <<" ","B"," ">>>>,
       <<RevenueTag, <<"1","0","0","0">>>>,
       <<<<"O","p","e","r","a","t","i","n","g","I","n","c","o","m","e">>, <<"7","3">>>> >>

DocUnmapped ==
    << <<<<"A","s","s","e","t","s">>, <<"1">>>>, <<<<"C","o","s","t">>, <<"n","/","a">>>> >>

DocZero == << <<<<"W","a","g","e","s">>, <<"0">>>> >>

DocRepeats ==
    << <<RevenueTag, <<"7","0","0">>>>, <<RevenueTag, <<"7","0","0">>>>,
       <<RevenueTag, <<"1","-","2">>>>, <<RevenueTag, NoString>> >>

BatchDocuments == {DocRevenueCogs, DocNamed, DocUnmapped, <<>>, DocZero, DocRepeats}

BatchFiles ==
    {File(name, tags) :
        name \in { <<"s","k","1",".","x","m","l">>,
                   <<"a","-","1",".","x","m","l">> },
        tags \in BatchDocuments}
      \cup { File(<<"S","K","2",".","x","m","l">>, DocRevenueCogs),
             File(<<"g","s",".","x","m","l">>, DocRevenueCogs),
             File(<<"s","-","o","i","l",".","x","m","l">>, DocRevenueCogs),
             Unreadable(<<"b",".","x","m","l">>) }

InitBatch ==
    /\ pc = "next_file"
    /\ uploaded_files \in UNION {[1..k -> BatchFiles] : k \in 1..MaxFiles}
    /\ file_index = 0
    /\ errors = <<>>
    /\ dataframes = <<>>
    /\ soup = <<>>
    /\ pos = 0
    /\ items = EmptyDict
    /\ seen = {}
    /\ standard_item = None
    /\ data = EmptyDict
    /\ data0 = EmptyDict
    /\ company_name = <<>>
    /\ income_statement = <<>>
    /\ merged = <<>>
    /\ report = <<>>

\* the file the loop of line 563 takes next
NextFile == uploaded_files[file_index + 1]

\* the file load_file is working on
CurrentFile == uploaded_files[file_index]

\* lines 565-566 raise, lines 83-85 and 574-575 with the loop ended there
ReadFailsEndsLoop ==
    /\ pc = "next_file"
    /\ file_index < Len(uploaded_files)
    /\ ~NextFile.readable
    /\ errors' = errors \o << <<"exception">>, <<"failed", NextFile.name>> >>
    /\ file_index' = Len(uploaded_files)
    /\ UNCHANGED <<pc, soup, pos, items, seen, standard_item, data, data0,
                   company_name, income_statement, dataframes, merged, report,
                   uploaded_files>>

\* lines 565-566 raise: lines 83-85 report it and return None, lines 574-575
\* report the file
ReadFails ==
    /\ pc = "next_file"
    /\ file_index < Len(uploaded_files)
    /\ ~NextFile.readable
    /\ errors' = errors \o << <<"exception">>, <<"failed", NextFile.name>> >>
    /\ file_index' = file_index + 1
    /\ UNCHANGED <<pc, soup, pos, items, seen, standard_item, data, data0,
                   company_name, income_statement, dataframes, merged, report,
                   uploaded_files>>

\* lines 563-569 and 65-72 up to the loop of _extract_financial_items
OpenFile ==
    /\ pc = "next_file"
    /\ file_index < Len(uploaded_files)
    /\ NextFile.readable
    /\ file_index' = file_index + 1
    /\ soup' = NextFile.tags
    /\ company_name' = ExtractCompanyName(NextFile.tags, NextFile.name)
    /\ pos' = 0
    /\ items' = EmptyDict
    /\ seen' = {}
    /\ standard_item' = None
    /\ pc' = "extract"
    /\ UNCHANGED <<data, data0, income_statement, dataframes, merged, report,
                   uploaded_files, errors>>

\* lines 74-76: no item was found; lines 574-575 report the file
NoItems ==
    /\ pc = "extracted"
    /\ items = EmptyDict
    /\ errors' = errors \o << <<"no_items">>, <<"failed", CurrentFile.name>> >>
    /\ pc' = "next_file"
    /\ UNCHANGED <<soup, pos, items, seen, standard_item, data, data0,
                   company_name, income_statement, dataframes, merged, report,
                   uploaded_files, file_index>>

\* lines 79-81 and 567-568: the statement is built and appended
AppendStatement ==
    /\ pc = "extracted"
    /\ items # EmptyDict
    /\ data0' = items
    /\ data' = WithDerived(items)
    /\ income_statement' = CreateIncomeStatement(items, company_name)
    /\ dataframes' = Append(dataframes, income_statement')
    /\ pc' = "next_file"
    /\ UNCHANGED <<soup, pos, items, seen, standard_item, company_name,
                   merged, report, uploaded_files, file_index, errors>>

\* lines 577-589: after the last file
EndLoop ==
    /\ pc = "next_file"
    /\ file_index = Len(uploaded_files)
    /\ pc' = IF dataframes = <<>> THEN "no_files"
             ELSE IF Len(dataframes) = 1 THEN "single"
             ELSE "merge"
    /\ errors' = IF dataframes = <<>> THEN Append(errors, <<"no_usable_files">>)
                 ELSE errors
    /\ UNCHANGED <<soup, pos, items, seen, standard_item, data, data0,
                   company_name, income_statement, dataframes, merged, report,
                   uploaded_files, file_index>>

NextBatch ==
    \/ ReadFails
    \/ OpenFile
    \/ NextExtract
    \/ NoItems
    \/ AppendStatement
    \/ EndLoop
    \/ NextMerge

SpecBatch == InitBatch /\ [][NextBatch]_vars

(***************************************************************************)
(* Properties of the extraction.                                           *)
(***************************************************************************)
\* the table entries whose key is a substring of the lower-cased name
Hits(name) ==
    LET low == Lower(name)
    IN  {i \in 1..NumKeys : Contains(low, Key(i))}

\* the least element of a set of numbers
Least(S) == CHOOSE i \in S : \A j \in S : i <= j

FirstHit(name) == LET hits == Hits(name) IN Least(hits)

\* the item of the first entry, in table order, whose key is in the name
ExpectedItem(name) ==
    LET hits == Hits(name)
    IN  IF hits = {} THEN None ELSE INCOME_STATEMENT_MAP[Least(hits)][2]

\* the tags among the first k whose string gave a number
Parsed(k) == {i \in 1..k : soup[i][1] # <<>> /\ ParseValue(soup[i][2]) # Skip}

\* where sub first starts in s
FirstPos(s, sub) ==
    CHOOSE i \in 0..(Len(s) - Len(sub)) :
        /\ \A j \in 1..Len(sub) : s[i + j] = sub[j]
        /\ \A h \in 0..(i - 1) : \E j \in 1..Len(sub) : s[h + j] # sub[j]

\* C2: a tag name is mapped to the item of the first key, in table order,
\* that is a substring of the lower-cased name, wherever the keys sit in the
\* name; a name that contains no key gives no item, and no entry of items.
C2_FirstKeyInTableOrderWins ==
    /\ (pos > 0 /\ pos \in Parsed(pos))
          => standard_item = ExpectedItem(soup[pos][1])
    /\ DOMAIN items = {ExpectedItem(soup[i][1]) : i \in Parsed(pos)} \ {None}

\* a name with two keys of different items, the later key of the table
\* standing earlier in the name, has been mapped to the earlier key's item
C2_Witness ==
    /\ pc = "extracted"
    /\ Len(soup) = 1
    /\ LET name == soup[1][1]
       IN  /\ Hits(name) # {}
           /\ \E j \in Hits(name) :
                 /\ j > FirstHit(name)
                 /\ INCOME_STATEMENT_MAP[j][2] # INCOME_STATEMENT_MAP[FirstHit(name)][2]
                 /\ FirstPos(Lower(name), Key(j)) < FirstPos(Lower(name), Key(FirstHit(name)))
           /\ standard_item = INCOME_STATEMENT_MAP[FirstHit(name)][2]
           /\ DOMAIN items = {standard_item}

\* the numbers of the first k tags that are mapped to the item
ValuesOf(item, k) ==
    {ParseValue(soup[i][2]) : i \in {h \in Parsed(k) : ExpectedItem(soup[h][1]) = item}}

\* C3: after any number of tags, an item has one value; it is one of the
\* numbers parsed for the item, sign included, and no number parsed for the
\* item has a greater absolute value.
C3_LargestMagnitudeKept ==
    \A item \in DOMAIN items :
        /\ items[item] \in ValuesOf(item, pos)
        /\ \A v \in ValuesOf(item, pos) : ~Gt(Abs(v), Abs(items[item]))

\* 700 and -1200 were read for one item, and -1200 is its value
C3_Witness ==
    /\ pc = "extracted"
    /\ \E item \in DOMAIN items :
          /\ FromInt(700) \in ValuesOf(item, pos)
          /\ FromInt(0 - 1200) \in ValuesOf(item, pos)
          /\ items[item] = FromInt(0 - 1200)


(***************************************************************************)
(* Properties of the derivation and of the statement.                      *)
(***************************************************************************)
Built == pc = "built"

\* C1: the derivation changes no item of its input: every item of the item
\* map handed to _create_income_statement has the same value in the map the
\* statement is built from.
C1_DeriveKeepsInputItems ==
    Built => \A item \in DOMAIN data0 : data[item] = data0[item]

\* the dict without the key
Without(d, key) == [x \in DOMAIN d \ {key} |-> d[x]]

\* C4 as stated: dropping an item whose value is 0 from the item map leaves
\* the statement as it is.
C4_ZeroIsLikeAbsent ==
    Built => \A X \in DOMAIN data0 :
                IsZero(data0[X])
                   => CreateIncomeStatement(Without(data0, X), company_name) = income_statement

\* the items that a derivation rule or a ratio reads
ReadByRules ==
    {"Revenue", "COGS", "GrossProfit", "SellingExpense", "AdminExpense", "SGA",
     "OperatingIncome", "NetIncome"}

\* C4, amended: the statement has no line-item row for an item whose value
\* in the completed map is 0, and dropping from the item map an item whose
\* value is 0 and that no derivation rule and no ratio reads leaves the
\* statement as it is.
C4_ZeroRowSuppressed ==
    Built =>
       /\ \A i \in 1..Len(standard_items) :
             IsZero(Get0(data, standard_items[i]))
                => standard_items[i] \notin Range(Labels(income_statement))
       /\ \A X \in DOMAIN data0 \ ReadByRules :
             IsZero(data0[X])
                => CreateIncomeStatement(Without(data0, X), company_name) = income_statement

\* a statement with rows was built from a map in which an item that no rule
\* reads is 0
C4_Witness ==
    /\ Built
    /\ income_statement.rows # <<>>
    /\ \E X \in DOMAIN data0 \ ReadByRules : IsZero(data0[X])

\* C9: with GrossProfit absent and Revenue present, GrossProfit becomes
\* Revenue - COGS and COGS is kept when COGS is present, and GrossProfit
\* becomes 30% of Revenue and COGS becomes Revenue - GrossProfit when COGS is
\* absent; with GrossProfit present and COGS absent, COGS stays absent.
C9_GrossProfitRules ==
    Built =>
       /\ ("Revenue" \in DOMAIN data0 /\ "GrossProfit" \notin DOMAIN data0
             /\ "COGS" \in DOMAIN data0)
            => /\ data["GrossProfit"] = Sub(data0["Revenue"], data0["COGS"])
               /\ data["COGS"] = data0["COGS"]
       /\ ("Revenue" \in DOMAIN data0 /\ "GrossProfit" \notin DOMAIN data0
             /\ "COGS" \notin DOMAIN data0)
            => /\ data["GrossProfit"] = Round(<<3 * (data0["Revenue"][1] \div 10),
                                                0 - 128 * (data0["Revenue"][1] \div 10)>>)
               /\ 10 * data["GrossProfit"][1] = 3 * data0["Revenue"][1]
               /\ data["COGS"] = Sub(data0["Revenue"], data["GrossProfit"])
       /\ ("GrossProfit" \in DOMAIN data0 /\ "COGS" \notin DOMAIN data0)
            => "COGS" \notin DOMAIN data

\* the three cases of the rule have happened: {Revenue: 1000, COGS: 700}
\* gave GrossProfit 300
C9_Witness ==
    /\ Built
    /\ data0 = ("Revenue" :> FromInt(1000)) @@ ("COGS" :> FromInt(700))
    /\ data["GrossProfit"] = FromInt(300)

\* C10: deriving again from the completed map changes nothing.
C10_DeriveIdempotent ==
    Built => WithDerived(data) = data

\* the positions of the rows of the statement that carry the label
RowsOf(label) ==
    {i \in 1..Len(income_statement.rows) :
        income_statement.rows[i][KeyCol] = label}

\* the cell shows the quotient num / den * 100 to the nearest hundredth
ShowsQuotient(cell, num, den) ==
    LET h == cell[2]
        exact == 10000 * Abs(num)[1]
        diff == h * den[1] - exact
    IN  /\ cell[1] = MinusIfNeg(num)
        /\ cell[3] = "%"
        /\ 2 * diff <= den[1]
        /\ 2 * (0 - diff) <= den[1]

\* C11: a statement has a ratio row only when Revenue > 0; then the row of
\* each ratio is there exactly when its numerator item is in the completed
\* item map, and its value is numerator / Revenue * 100.
C11_RatiosOnlyForPositiveRevenue ==
    Built =>
        \A k \in 1..Len(RatioSources) :
            LET name == RatioSources[k][1]
                num == RatioSources[k][2]
            IN  IF IsPos(Get0(data, "Revenue")) /\ num \in DOMAIN data
                THEN \E i \in 1..Len(income_statement.rows) :
                        /\ RowsOf(name) = {i}
                        /\ income_statement.rows[i][RawCol(company_name)]
                              = <<data[num], data["Revenue"]>>
                        /\ ShowsQuotient(
                              income_statement.rows[i][DisplayCol(company_name)],
                              data[num], data["Revenue"])
                ELSE RowsOf(name) = {}

\* {Revenue: 1000, OperatingIncome: 700} was built: OperatingMargin is 70.00%
\* and a COGSRatio row stands beside it
C11_Witness ==
    /\ Built
    /\ data0 = ("Revenue" :> FromInt(1000)) @@ ("OperatingIncome" :> FromInt(700))
    /\ \E i \in RowsOf("OperatingMargin") :
          income_statement.rows[i][DisplayCol(company_name)] = <<"", 7000, "%">>
    /\ RowsOf("COGSRatio") # {}
    /\ RowsOf("NetMargin") = {}


(***************************************************************************)
(* Properties of the merge and of the report.                              *)
(***************************************************************************)
Merged == pc \in {"merged", "reported"}

\* the first statement's labels, then the labels new in each later statement
RECURSIVE AppendedOrder(_, _, _)
AppendedOrder(index, dfs, i) ==
    IF i > Len(dfs) THEN index
    ELSE AppendedOrder(AppendedIndex(index, Labels(dfs[i])), dfs, i + 1)

\* C5: the rows of the merged table are the rows of the first statement in
\* its order, followed by the items that only later statements have, in the
\* order in which those statements are processed.
C5_FirstOrderThenAppended ==
    Merged => Labels(merged) = AppendedOrder(Labels(dataframes[1]), dataframes, 2)

\* the statements that have columns, and so a company
WithCompany == {i \in DOMAIN dataframes : dataframes[i].columns # <<>>}

DistinctNames ==
    \A i, j \in WithCompany : i # j => dataframes[i].columns # dataframes[j].columns

AllLabels == UNION {Range(Labels(dataframes[i])) : i \in DOMAIN dataframes}

\* C6: for statements of distinct companies the merge gives a table whose
\* row keys are the union of the statements' row keys, each once, and in
\* which a company's cell is its formatted value where it has the row and
\* "-" where it has not.
C6_OuterJoinWithMissing ==
    (pc \in {"merged", "reported", "raised"} /\ DistinctNames) =>
       /\ merged.raised = None
       /\ Range(Labels(merged)) = AllLabels
       /\ Len(merged.rows) = Cardinality(AllLabels)
       /\ \A i \in WithCompany :
             LET df == dataframes[i]
                 col == df.columns[2]
             IN  /\ col \in Range(merged.columns)
                 /\ \A k \in 1..Len(merged.rows) :
                       merged.rows[k][col] =
                          IF merged.rows[k][KeyCol] \in Range(Labels(df))
                          THEN RowOf(df, merged.rows[k][KeyCol])[col]
                          ELSE Missing

\* C7: the merged table has, for every company, its display column and its
\* raw-value column.
C7_RawColumnPerCompany ==
    Merged => \A i \in WithCompany :
                 /\ dataframes[i].columns[2] \in Range(merged.columns)
                 /\ dataframes[i].columns[3] \in Range(merged.columns)

\* the values of the companies' display columns of a row that are not "-"
DisplayValues(row) ==
    LET Shown(col) == col # KeyCol /\ ~EndsWithRaw(col) /\ row[col] # Missing
        shown == SelectSeq(merged.columns, Shown)
    IN  [i \in 1..Len(shown) |-> row[shown[i]]]

\* C8: for every ratio row of the merged table (OperatingMargin, NetMargin,
\* COGSRatio, SGARatio) the report has one bullet, which lists the values of
\* the companies that have one.
C8_BulletPerRatioRow ==
    pc = "reported" =>
       \A k \in 1..Len(merged.rows) :
          MatchesAnyRatio(merged.rows[k][KeyCol]) =>
             Cardinality({n \in 1..Len(report) :
                             report[n] = <<"bullet", merged.rows[k][KeyCol],
                                           DisplayValues(merged.rows[k])>>}) = 1

Reported == pc = "reported"

\* the value a cell "N.NN%" shows, in hundredths of a percentage point
Hundredths(cell) == IF cell[1] = "-" THEN 0 - cell[2] ELSE cell[2]

\* the values the entities show in the OperatingMargin row, in hundredths,
\* one for each display column whose cell is not missing
MarginColumns ==
    {c \in Range(merged.columns) :
        /\ c # KeyCol
        /\ ~EndsWithRaw(c)
        /\ RowOf(merged, "OperatingMargin")[c] # Missing}

MarginValues == {Hundredths(RowOf(merged, "OperatingMargin")[c]) : c \in MarginColumns}

\* max - min of those values, in hundredths
Spread ==
    (CHOOSE x \in MarginValues : \A y \in MarginValues : y <= x)
      - (CHOOSE x \in MarginValues : \A y \in MarginValues : x <= y)

\* the figure t, in tenths, shows the figure h / q, h in hundredths
ShowsTenths(t, h, q) == 2 * q * t - 2 * h <= q /\ 2 * h - 2 * q * t <= q

RECURSIVE TagItems(_)
TagItems(tags) ==
    IF tags = <<>> THEN <<>>
    ELSE <<IF tags[1][1] = <<>> \/ ParseValue(tags[1][2]) = Skip
           THEN None
           ELSE ExpectedItem(tags[1][1])>> \o TagItems(Tail(tags))

\* for each tag of a document, the number of its string
RECURSIVE TagValues(_)
TagValues(tags) ==
    IF tags = <<>> THEN <<>>
    ELSE <<ParseValue(tags[1][2])>> \o TagValues(Tail(tags))

\* the item map of a document: for each item the first of its numbers that
\* no other of its numbers exceeds in absolute value
ItemsOfDocument(tags) ==
    LET item == TagItems(tags)
        value == TagValues(tags)
        Of(i) == {k \in 1..Len(tags) : item[k] = i}
        Best(i) ==
            CHOOSE k \in Of(i) :
                \A j \in Of(i) :
                    /\ ~Gt(Abs(value[j]), Abs(value[k]))
                    /\ j < k => Gt(Abs(value[k]), Abs(value[j]))
    IN  [i \in Range(item) \ {None} |-> value[Best(i)]]

\* the statement of a file on its own, as a sequence of one statement, or
\* of none when the file cannot be read or has no item
StatementOfFile(file) ==
    LET financial_data == ItemsOfDocument(file.tags)
    IN  IF ~file.readable \/ financial_data = EmptyDict THEN <<>>
        ELSE <<CreateIncomeStatement(financial_data,
                                     ExtractCompanyName(file.tags, file.name))>>

RECURSIVE StatementsOfFiles(_)
StatementsOfFiles(files) ==
    IF files = <<>> THEN <<>>
    ELSE StatementOfFile(files[1]) \o StatementsOfFiles(Tail(files))

\* the names of the files among them that give no statement
RECURSIVE FailedFiles(_)
FailedFiles(files) ==
    IF files = <<>> THEN <<>>
    ELSE (IF ~files[1].readable \/ ItemsOfDocument(files[1].tags) = EmptyDict
          THEN <<files[1].name>>
          ELSE <<>>)
           \o FailedFiles(Tail(files))

\* the names of the files reported as failed, in the order of the reports
ReportedFailures ==
    LET IsFailure(e) == e[1] = "failed"
        failures == SelectSeq(errors, IsFailure)
    IN  [i \in 1..Len(failures) |-> failures[i][2]]

\* the files the loop has finished with
FilesDone ==
    SubSeq(uploaded_files, 1,
           IF pc \in {"extract", "extracted"} THEN file_index - 1 ELSE file_index)

InLoopOfFiles == pc \in {"next_file", "extract", "extracted"}

\* C13: a file that cannot be read or that has no recognized item gives no
\* statement and is reported as failed; the loop leaves no file out, and the
\* statements collected are those of the files that succeeded, in upload
\* order, each as the file gives it on its own.
C13_FailureLeavesOthersAlone ==
    /\ dataframes = StatementsOfFiles(FilesDone)
    /\ ReportedFailures = FailedFiles(FilesDone)
    /\ ~InLoopOfFiles => file_index = Len(uploaded_files)

\* a file without a recognized item was reported, and the statement of the
\* file after it is the one collected
C13_Witness ==
    /\ pc = "single"
    /\ Len(uploaded_files) = 2
    /\ uploaded_files[1].readable
    /\ uploaded_files[1].tags = DocUnmapped
    /\ errors = << <<"no_items">>, <<"failed", uploaded_files[1].name>> >>
    /\ dataframes = StatementOfFile(uploaded_files[2])
    /\ Len(dataframes) = 1


(***************************************************************************)
(* Properties of the keyword table.                                        *)
(***************************************************************************)
\* C14: a tag whose name is a key of the table is given the item of that
\* key, so that no key is dead and every item of the table can be produced.
C14_EveryKeywordEffective ==
    \A i \in 1..NumKeys :
        (pc = "extracted" /\ Len(soup) = 1 /\ soup[1][1] = Key(i)
           /\ ParseValue(soup[1][2]) # Skip)
          => /\ standard_item = INCOME_STATEMENT_MAP[i][2]
             /\ DOMAIN items = {INCOME_STATEMENT_MAP[i][2]}


\* C15: for the statements of any batch, the merge returns a table: it does
\* not raise, whether two statements carry the same company name or a
\* statement has no rows.
C15_MergeNeverRaises ==
    /\ pc # "raised"
    /\ pc \in {"merged", "reported"} => merged.raised = None


(***************************************************************************)
(* Properties of the order of the facts.                                   *)
(***************************************************************************)
\* the orders in which n facts can stand
Orders(n) == {p \in [1..n -> 1..n] : \A i, j \in 1..n : p[i] = p[j] => i = j}

\* the document with its tags in the order p
Reordered(tags, p) == [i \in 1..Len(tags) |-> tags[p[i]]]

\* C16: the item map extracted from a document is the item map of the same
\* facts in any other order, also when two facts of one item have the same
\* magnitude and opposite signs.
C16_ExtractionOrderIndependent ==
    pc = "extracted" =>
        \A p \in Orders(Len(soup)) : ItemsOfDocument(Reordered(soup, p)) = items

=============================================================================
